---- MODULE Spec2Model ----
(***************************************************************************)
(* A model of the rugbycodex transcoding workers.                          *)
(*                                                                         *)
(*   SpecRun : one execution of StreamWorker.run (stream_worker.py), the   *)
(*             thread the listener starts for a queued job.                *)
(*   SpecSqs : the SQS deployment (stream_worker_sqs.py): one consumer     *)
(*             running main() / process_job against one queue message,     *)
(*             with the VisibilityHeartbeat thread and a clock.            *)
(*   SpecSqsPair : two consumers polling the queue, with a reliable store, *)
(*             queue API and disk, a transcoder that reports its position  *)
(*             once, and no operator interrupt.                            *)
(*   SpecEither : either of the two deployments above, on its own.         *)
(*   SpecHeartbeat : a VisibilityHeartbeat whose owner calls start() and   *)
(*             stop() in any order (visibility_heartbeat.py).              *)
(*   SpecListener : the polling loop of listener.py with two queued jobs   *)
(*             and the StreamWorker threads it starts.                     *)
(*   SpecStoryboard : one call of generate_storyboard_thumbnails           *)
(*             (stream_worker_sqs.py) on a manifest and a set of sprites.  *)
(*   SpecApi : the backend (backend/app): assert_same_org and the route    *)
(*             POST /clips against table clips.                            *)
(*                                                                         *)
(* Both share the job and media-asset records of the job store.  Every     *)
(* store update may fail: the update helpers catch the exception, log it   *)
(* and return, so a failed update leaves the record as it was.             *)
(***************************************************************************)
EXTENDS Integers, Sequences, FiniteSets, TLC

VARIABLES
    job,        \* the row of table jobs
    asset,      \* the row of table media_assets
    dbErrors,   \* history: the store updates that failed (each is logged)
    remote,     \* remote storage: how many files of the streaming output it holds
    \* ---- StreamWorker (stream_worker.py)
    stage,      \* self.stage
    attempts,   \* self.attempts
    pc,         \* control position of run()
    execLog,    \* history: the stage executor calls made, in order
    raisedAt,   \* history: self.stage when an exception was raised, or "none"
    \* ---- SQS worker (stream_worker_sqs.py, visibility_heartbeat.py)
    consumers,  \* the consumer processes polling the queue
    now,        \* the clock, in seconds
    msg,        \* the queue message, as SQS holds it
    wk,         \* per consumer: position in main() / process_job and its locals
    hb,         \* per consumer: its VisibilityHeartbeat
    \* ---- the worker's local disk
    ws,         \* the workspace of the job: input file and output directory
    \* ---- listener (listener.py)
    rows,       \* per job: the state column of its row in table jobs
    media,      \* per job: the media asset its row refers to
    workers,    \* per job: the StreamWorker held in the dict `workers`, if any
    todo,       \* the jobs of `active_jobs` the for loop has not reached yet
    lpc,        \* control position of the listener loop
    sample,     \* history: the load read by the latest can_add_worker call
    starts,     \* history: per job, the StreamWorker threads started for it
    \* ---- storyboard cues (stream_worker_sqs.py)
    board,      \* one call of generate_storyboard_thumbnails: inputs and result
    \* ---- backend API (backend/app)
    api         \* table clips, and the latest call with its outcome

runVars == <<stage, attempts, pc, execLog, raisedAt>>
sqsVars == <<consumers, now, msg, wk, hb>>
lisVars == <<rows, media, workers, todo, lpc, sample, starts>>
pureVars == <<board, api>>
vars == <<job, asset, dbErrors, remote, stage, attempts, pc, execLog, raisedAt,
          consumers, now, msg, wk, hb, ws, rows, media, workers, todo, lpc, sample,
          starts, board, api>>

----------------------------------------------------------------------------
(* Program constants                                                       *)

MAX_ATTEMPTS == 3
VISIBILITY_TIMEOUT == 600
EXTENSION_SECONDS == 300
HEARTBEAT_INTERVAL == 240

(* Bounds of the model                                                     *)

\* The clock advances in steps of the greatest common divisor of the three
\* durations above (60 s), MaxTicks times at most.
TickSeconds == HEARTBEAT_INTERVAL \div 4
MaxTicks == 12

\* At most MaxDbFaults store updates fail in one behaviour.
MaxDbFaults == 1

\* The listener starts at most MaxStarts workers for one job.
MaxStarts == 2

\* A manifest has at most MaxSegments segments, and ffmpeg leaves at most
\* MaxSprites sprite sheets.
MaxSegments == 52
MaxSprites == 3

\* Table clips holds at most MaxClips rows.
MaxClips == 2

\* The streaming output of a job is OutputFiles files.
OutputFiles == 2

\* The input of a job is DurationSeconds long.
DurationSeconds == 20

----------------------------------------------------------------------------
(* The job store                                                           *)

Terminal == {"succeeded", "failed"}

\* A partial update of one row: only the named fields change.  ok = FALSE is
\* an update that raised (or matched no row): it is logged and dropped.
ApplyUpdate(row, fields, ok) ==
    IF ok
    THEN [f \in DOMAIN row |-> IF f \in DOMAIN fields THEN fields[f] ELSE row[f]]
    ELSE row

\* What a list of update outcomes adds to the failed updates
Bad(oks) == Cardinality({i \in 1..Len(oks) : ~oks[i]})

\* With competing consumers the store, the queue API and the local disk are
\* taken to be reliable.
Reliable == Cardinality(consumers) > 1

\* With one consumer at most MaxDbFaults store updates fail.
FaultBudget == IF Reliable THEN 0 ELSE MaxDbFaults

\* The update outcomes oks are possible, and counted
Faults(oks) ==
    /\ dbErrors + Bad(oks) <= FaultBudget
    /\ dbErrors' = dbErrors + Bad(oks)

\* Remote storage after an upload that put its first k files: the files are
\* sent one by one in sorted order, each replacing the object of the same key,
\* and nothing is removed when a later file fails.
Uploaded(r, k) == IF k > r THEN k ELSE r

\* An upload stage that reports success as soon as one file went up
UploadResultLenient(k) == k >= 1
\* upload_to_wasabi and StreamWorker._upload_output, k files having gone up
\* before the first upload that raised: the loop over the sorted files has
\* no handler of its own, so the first exception leaves it for the except
\* clause of the function, which returns False; `return True` is reached
\* only when the loop has run to its end.
UploadResult(k) == k = OutputFiles

InitJob ==
    [state |-> "queued", attempt |-> 0, started_at |-> FALSE,
     finished_at |-> FALSE, progress |-> 0,
     error_code |-> "none", error_message |-> "none"]

InitAsset ==
    [processing_stage |-> "uploaded", status |-> "uploaded",
     streaming_ready |-> FALSE, thumbnail_path |-> "none",
     transcode_progress |-> 0]

----------------------------------------------------------------------------
(* The workspace on the worker's disk                                      *)

\* input: the fetched input file exists; output: the output directory exists;
\* files: it holds regular files (manifest, segments, thumbnail.jpg);
\* sub: it holds the subdirectory thumbnails/ (storyboard sprites and VTT).
NoWorkspace == [input |-> FALSE, output |-> FALSE, files |-> FALSE, sub |-> FALSE]

\* The finally clause of run(): os.remove(input), then os.remove on every
\* entry of the output directory and os.rmdir.  os.remove raises on an entry
\* that is a directory, and the directory is then left behind.
CleanupRun(d) ==
    IF d.output /\ d.sub
    THEN [d EXCEPT !.input = FALSE]
    ELSE NoWorkspace

\* A cleanup that removes regular files only
CleanupFlat(d) == [d EXCEPT !.input = FALSE, !.files = FALSE, !.output = d.sub]
\* The finally clause of process_job: input_file.unlink(), then
\* shutil.rmtree(output_dir), which removes the tree below it.
Cleanup(d) == NoWorkspace

----------------------------------------------------------------------------
(* StreamWorker.run                                                        *)

\* A stage order without the thumbnail
NextStageSkipping(s) ==
    CASE s = "START" -> "DOWNLOAD_INPUT"
      [] s = "DOWNLOAD_INPUT" -> "TRANSCODE"
      [] s = "TRANSCODE" -> "UPLOAD_OUTPUT"
      [] OTHER -> "COMPLETE"
\* _Stage: the stage that follows s
NextStage(s) ==
    CASE s = "START" -> "DOWNLOAD_INPUT"
      [] s = "DOWNLOAD_INPUT" -> "TRANSCODE"
      [] s = "TRANSCODE" -> "GENERATE_THUMBNAIL"
      [] s = "GENERATE_THUMBNAIL" -> "UPLOAD_OUTPUT"
      [] s = "UPLOAD_OUTPUT" -> "COMPLETE"
      [] OTHER -> "COMPLETE"

\* The stages whose failure makes run() `continue`
Blocking == {"DOWNLOAD_INPUT", "TRANSCODE", "UPLOAD_OUTPUT"}

\* A ceiling check that fires one pass early
RetryExhaustedOffByOne(a) == a >= MAX_ATTEMPTS
\* `if self.attempts > 3`
RetryExhausted(a) == a > MAX_ATTEMPTS

Done == {"done_complete", "done_exhausted", "done_exception", "done_escaped"}

\* A loop head that leaves the counter alone
NextAttemptForgotten(a) == a
\* `self.attempts += 1`
NextAttempt(a) == a + 1

\* A failure handling that restarts the job from the download
StageAfterRestart(s, ok) == IF ok THEN NextStage(s) ELSE "DOWNLOAD_INPUT"
\* The stage pointer after the executor of stage s returned ok: a success
\* assigns the next stage, a failure of a blocking stage `continue`s with
\* self.stage untouched.
StageAfter(s, ok) == IF ok THEN NextStage(s) ELSE s

\* `self.stage = _Stage.UPLOAD_OUTPUT`, assigned after the thumbnail branch
\* whatever _generate_thumbnail returned
AfterThumbnail(s) == "UPLOAD_OUTPUT"

\* The entry a stage executor call leaves in the history
Exec(s, ok) == [stage |-> s, ok |-> ok, attempt |-> attempts]

\* run() up to the try: _start_job, self.stage = DOWNLOAD_INPUT, os.makedirs.
\* os.makedirs is outside the try: when it raises, the exception leaves run()
\* and neither the except nor the finally clause runs.
RunStart ==
    /\ pc = "init"
    /\ \E okStart \in BOOLEAN, mkOk \in BOOLEAN :
         /\ Faults(<<okStart>>)
         /\ job' = ApplyUpdate(job, [state |-> "running", started_at |-> TRUE], okStart)
         /\ stage' = "DOWNLOAD_INPUT"
         /\ pc' = IF mkOk THEN "head" ELSE "done_escaped"
         /\ raisedAt' = IF mkOk THEN raisedAt ELSE "DOWNLOAD_INPUT"
         /\ ws' = [ws EXCEPT !.output = @ \/ mkOk]
    /\ UNCHANGED <<asset, attempts, execLog>>
    /\ UNCHANGED remote
    /\ UNCHANGED lisVars
    /\ UNCHANGED sqsVars
    /\ UNCHANGED pureVars

\* One pass through the head of `while self.stage != _Stage.COMPLETE`:
\* the increment, the attempt update, and the ceiling check with its
\* _update_job_state(FAILED) and break (then the finally clause).
LoopHead ==
    /\ pc = "head"
    /\ stage # "COMPLETE"
    /\ attempts' = NextAttempt(attempts)
    /\ \E okAttempt \in BOOLEAN, okFailed \in BOOLEAN :
         LET j1 == ApplyUpdate(job, [attempt |-> NextAttempt(attempts)], okAttempt) IN
         IF RetryExhausted(NextAttempt(attempts))
         THEN /\ Faults(<<okAttempt, okFailed>>)
              /\ job' = ApplyUpdate(j1, [state |-> "failed"], okFailed)
              /\ pc' = "done_exhausted"
              /\ ws' = CleanupRun(ws)
         ELSE /\ okFailed
              /\ Faults(<<okAttempt>>)
              /\ job' = j1
              /\ pc' = "stage"
              /\ UNCHANGED ws
    /\ UNCHANGED <<asset, stage, execLog, raisedAt>>
    /\ UNCHANGED remote
    /\ UNCHANGED lisVars
    /\ UNCHANGED sqsVars
    /\ UNCHANGED pureVars

\* `if self.stage == _Stage.DOWNLOAD_INPUT`: _download_input_file returns
\* True or False (it catches every exception itself).  A failed transfer may
\* leave a partial input file.
DownloadInput ==
    /\ pc = "stage"
    /\ stage = "DOWNLOAD_INPUT"
    /\ \E ok \in BOOLEAN, left \in BOOLEAN :
         /\ ok => left
         /\ execLog' = Append(execLog, Exec(stage, ok))
         /\ stage' = StageAfter(stage, ok)
         /\ pc' = IF ok THEN "stage" ELSE "head"
         /\ ws' = [ws EXCEPT !.input = @ \/ left]
    /\ UNCHANGED <<job, asset, dbErrors, attempts, raisedAt>>
    /\ UNCHANGED remote
    /\ UNCHANGED lisVars
    /\ UNCHANGED sqsVars
    /\ UNCHANGED pureVars

\* `if self.stage == _Stage.TRANSCODE`: ffmpeg writes the manifest and the
\* segments into the output directory; a failed run may leave some of them.
Transcode ==
    /\ pc = "stage"
    /\ stage = "TRANSCODE"
    /\ \E ok \in BOOLEAN, left \in BOOLEAN :
         /\ ok => left
         /\ execLog' = Append(execLog, Exec(stage, ok))
         /\ stage' = StageAfter(stage, ok)
         /\ pc' = IF ok THEN "stage" ELSE "head"
         /\ ws' = [ws EXCEPT !.files = @ \/ left]
    /\ UNCHANGED <<job, asset, dbErrors, attempts, raisedAt>>
    /\ UNCHANGED remote
    /\ UNCHANGED lisVars
    /\ UNCHANGED sqsVars
    /\ UNCHANGED pureVars

\* `if self.stage == _Stage.GENERATE_THUMBNAIL`: thumbnail.jpg is written
\* into the output directory; a failure is logged and the pointer moves to
\* UPLOAD_OUTPUT all the same.
GenerateThumbnail ==
    /\ pc = "stage"
    /\ stage = "GENERATE_THUMBNAIL"
    /\ \E ok \in BOOLEAN :
         /\ execLog' = Append(execLog, Exec(stage, ok))
         /\ ws' = [ws EXCEPT !.files = @ \/ ok]
    /\ stage' = AfterThumbnail(stage)
    /\ UNCHANGED <<job, asset, dbErrors, attempts, pc, raisedAt>>
    /\ UNCHANGED remote
    /\ UNCHANGED lisVars
    /\ UNCHANGED sqsVars
    /\ UNCHANGED pureVars

\* `if self.stage == _Stage.UPLOAD_OUTPUT`: on failure `continue`; on success
\* _update_media_asset_derivatives and _complete_job.
UploadOutput ==
    /\ pc = "stage"
    /\ stage = "UPLOAD_OUTPUT"
    /\ \E ok \in BOOLEAN, okAsset \in BOOLEAN, okJob \in BOOLEAN :
         /\ execLog' = Append(execLog, Exec(stage, ok))
         /\ stage' = StageAfter(stage, ok)
         /\ \E k \in 0..OutputFiles :
              /\ ok = UploadResult(k)
              /\ remote' = Uploaded(remote, k)
         /\ IF ok
            THEN /\ Faults(<<okAsset, okJob>>)
                 /\ asset' = ApplyUpdate(asset,
                        [streaming_ready |-> TRUE, thumbnail_path |-> "thumbnail.jpg"],
                        okAsset)
                 /\ job' = ApplyUpdate(job,
                        [state |-> "succeeded", finished_at |-> TRUE, progress |-> 100],
                        okJob)
                 /\ pc' = "completed"
            ELSE /\ okAsset /\ okJob
                 /\ UNCHANGED <<job, asset, dbErrors>>
                 /\ pc' = "head"
    /\ UNCHANGED <<attempts, raisedAt>>
    /\ UNCHANGED ws
    /\ UNCHANGED lisVars
    /\ UNCHANGED sqsVars
    /\ UNCHANGED pureVars

\* The loop condition fails after _complete_job; the finally clause runs and
\* the thread ends.
LoopExit ==
    /\ pc = "completed"
    /\ stage = "COMPLETE"
    /\ pc' = "done_complete"
    /\ ws' = CleanupRun(ws)
    /\ UNCHANGED <<job, asset, dbErrors, stage, attempts, execLog, raisedAt>>
    /\ UNCHANGED remote
    /\ UNCHANGED lisVars
    /\ UNCHANGED sqsVars
    /\ UNCHANGED pureVars

\* An exception inside the try (log_event, which every branch calls, writes
\* to stdout and may raise): `except Exception` updates the job with the
\* current stage name as error code, then the finally clause runs.
RaiseInTry ==
    /\ pc \in {"head", "stage", "completed"}
    /\ \E ok \in BOOLEAN :
         /\ Faults(<<ok>>)
         /\ job' = ApplyUpdate(job,
                   [state |-> "failed", error_code |-> stage, error_message |-> "set"],
                   ok)
    /\ raisedAt' = stage
    /\ pc' = "done_exception"
    /\ ws' = CleanupRun(ws)
    /\ UNCHANGED <<asset, stage, attempts, execLog>>
    /\ UNCHANGED remote
    /\ UNCHANGED lisVars
    /\ UNCHANGED sqsVars
    /\ UNCHANGED pureVars

NextRun ==
    \/ RunStart
    \/ LoopHead
    \/ DownloadInput
    \/ Transcode
    \/ GenerateThumbnail
    \/ UploadOutput
    \/ LoopExit
    \/ RaiseInTry

----------------------------------------------------------------------------
(* The SQS worker: main(), process_job, VisibilityHeartbeat                *)

Workers == {"w1", "w2"}

\* A consumer between two messages, and the locals of process_job at its start
\* (uploaded is history: upload_to_wasabi returned True in this execution).
\*   pct   last_progress_percent of transcode_video
\*   mark  the position, in seconds, of the last time= marker ffmpeg wrote
\*   rc    return_code of the ffmpeg process (-1: it has not exited)
IdleWorker ==
    [pc |-> "poll", rh |-> 0, result |-> FALSE, pct |-> 0, mark |-> 0, rc |-> -1,
     storyboard |-> FALSE, uploaded |-> FALSE]
\* `heartbeat = None`, and a VisibilityHeartbeat as __init__ leaves it.
\*   state      "none": self.thread is None; "running": the thread sits in
\*              stop_event.wait; "calling": the wait timed out and the thread
\*              is at change_message_visibility; "stopped": the thread ended
\*              because stop_event was set; "exited": it ended by `break`
\*   stop_set   self.stop_event
\*   next       the instant the current wait times out
\*   count      self.extension_count
\*   last_error self.last_error is not None
\*   has_cb     an on_failure callback was given
\*   rh         self.receipt_handle (0: no heartbeat was constructed)
\*   orphan     process_job has returned while the thread was still at its
\*              renewal call: nothing refers to the object any more
\*   calls, cb  history: renewal calls issued, on_failure calls made
NoHeartbeat ==
    [state |-> "none", stop_set |-> FALSE, next |-> 0, count |-> 0,
     last_error |-> FALSE, has_cb |-> FALSE, rh |-> 0, orphan |-> FALSE,
     calls |-> 0, cb |-> 0]

\* The thread of heartbeat h is alive
Alive(h) == h.state \in {"running", "calling"}

\* VisibilityHeartbeat.start() at time t: nothing when the thread is alive;
\* else stop_event.clear() and a new thread that enters its first wait.
StartHb(h, t) ==
    IF Alive(h)
    THEN h
    ELSE [h EXCEPT !.state = "running", !.stop_set = FALSE,
                   !.next = t + HEARTBEAT_INTERVAL]

\* A stop() that does nothing
StopSkipped(h) == h
\* A stop() that also clears the recorded error
StopClearsError(h) == [h EXCEPT !.stop_set = TRUE, !.last_error = FALSE]
\* VisibilityHeartbeat.stop(): return when self.thread is None; else
\* stop_event.set() and join(timeout=5.0).  A thread in its wait wakes and
\* ends; a thread at its renewal call goes on with the call, and stop()
\* returns when the call has returned or when the 5 seconds are over,
\* whichever comes first.
StopHb(h) ==
    IF h.state = "none"
    THEN h
    ELSE [h EXCEPT !.stop_set = TRUE,
                   !.state = IF @ = "running" THEN "stopped" ELSE @]

\* A counter that counts every renewal call
CountedAlways(n, accepted) == n + 1
\* _heartbeat_loop: `self.extension_count += 1` follows the call inside the
\* try, so it is skipped when the call raises.
Counted(n, accepted) == IF accepted THEN n + 1 ELSE n

\* A loop that goes back to its wait after a failed renewal
AfterFailureRetry(h) == IF h.stop_set THEN "stopped" ELSE "running"
\* _heartbeat_loop after a failed renewal: `break`
AfterFailure(h) == "exited"

\* _heartbeat_loop after a renewal: the next stop_event.wait, which returns
\* at once when stop_event is set.
AfterRenewal(h) == IF h.stop_set THEN "stopped" ELSE "running"

\* The positions, in seconds, that the time= markers of one ffmpeg run
\* report: an early one, the middle of the input and its end.
MarkerTimes == {1, DurationSeconds \div 2, DurationSeconds}

Min(a, b) == IF a < b THEN a ELSE b

\* A percentage that is not capped
ProgressPercentUncapped(t) == (t * 100) \div DurationSeconds
\* transcode_video: progress_percent = min(int((current_time /
\* total_duration) * 100), 99)
ProgressPercent(t) == Min((t * 100) \div DurationSeconds, 99)

\* The positions of process_job at which the pipeline waits on a transfer or
\* on the transcoder
Waiting == {"download", "transcode", "upload"}

\* An upload whose result is ignored
AfterUploadIgnored(ok) == "finalize"
\* process_job: `if not upload_to_wasabi(...): raise Exception("Upload failed")`
AfterUpload(ok) == IF ok THEN "finalize" ELSE "finally"

\* The except clause of process_job: update_job_fields(failed, finished_at,
\* error_message)
FailJob(j, ok) ==
    ApplyUpdate(j, [state |-> "failed", finished_at |-> TRUE, error_message |-> "set"], ok)

\* SQS accepts a change of visibility for the receipt handle h: the message
\* exists, h is the handle of its latest receive and it is still in flight.
HandleInFlight(h) ==
    /\ ~msg.deleted
    /\ h = msg.handle
    /\ now < msg.visibleAt

\* The message bodies a producer may send: a payload object with the three
\* ids, an object with an id missing or empty, text that is not JSON, and JSON
\* that is not an object (a list, a string, a number).
Bodies == {"ok", "missing_field", "not_json", "not_object"}

\* main(): json.loads returns and body.get works on its result
Parses(b) == b \in {"ok", "missing_field"}

\* A validation that lets every parsed body through
DiscardedNever(b) == FALSE
\* main(): `if not job_id or not media_id or not org_id`
Discarded(b) == b = "missing_field"

\* process_job: `if job_data["state"] in ["succeeded", "failed"]`
AlreadyFinishedNever(state) == FALSE
AlreadyFinished(state) == state \in Terminal

\* A dispatcher that lets the exception raised at position p end main()
OnExceptionPropagates(p) == "exit"
\* main(): `except Exception` around the body of the poll loop, whatever
\* position p raised: log worker_error, time.sleep(5), next iteration
OnException(p) == "backoff"

\* A dispatcher that deletes every message it has processed
AcknowledgedAlways(success) == TRUE
\* main(): `if success: sqs.delete_message(...)`
Acknowledged(success) == success

\* main(): sqs.receive_message returns the message when it is visible, and
\* hides it for VISIBILITY_TIMEOUT seconds under a new receipt handle.  A
\* body that does not parse raises in json.loads or in body.get and `except
\* Exception` takes over.  A parsed body with an id missing is logged and the
\* message deleted.  Otherwise main() calls process_job.
ReceiveMessage(w) ==
    /\ wk[w].pc = "poll"
    /\ ~msg.deleted
    /\ now >= msg.visibleAt
    /\ LET received == [msg EXCEPT !.visibleAt = now + VISIBILITY_TIMEOUT,
                                    !.handle = @ + 1]
       IN
       CASE ~Parses(msg.body) ->
              /\ msg' = received
              /\ wk' = [wk EXCEPT ![w].pc = OnException("parse")]
         [] Parses(msg.body) /\ Discarded(msg.body) ->
              /\ msg' = [received EXCEPT !.deleted = TRUE]
              /\ wk' = wk
         [] OTHER ->
              /\ msg' = received
              /\ wk' = [wk EXCEPT ![w] = [IdleWorker EXCEPT !.pc = "details",
                                                             !.rh = received.handle]]
    /\ UNCHANGED <<job, asset, dbErrors, consumers, now, hb>>
    /\ UNCHANGED remote
    /\ UNCHANGED ws
    /\ UNCHANGED lisVars
    /\ UNCHANGED runVars
    /\ UNCHANGED pureVars

\* process_job: get_job_details and the two early returns (job not found:
\* False; job already succeeded or failed: True).
GetJobDetails(w) ==
    /\ wk[w].pc = "details"
    /\ \E fetched \in BOOLEAN :
         wk' = [wk EXCEPT
                  ![w].pc = IF fetched /\ ~AlreadyFinished(job.state)
                            THEN "running" ELSE "ack",
                  ![w].result = fetched /\ AlreadyFinished(job.state)]
    /\ UNCHANGED <<job, asset, dbErrors, consumers, now, msg, hb>>
    /\ UNCHANGED remote
    /\ UNCHANGED ws
    /\ UNCHANGED lisVars
    /\ UNCHANGED runVars
    /\ UNCHANGED pureVars

\* process_job: update_job_fields(running, started_at), then
\* update_media_asset_processing_stage("transcoding"), then
\* output_dir.mkdir(exist_ok=True).  The mkdir is outside the try: when it
\* raises, the exception leaves process_job and main() catches it.
SetRunning(w) ==
    /\ wk[w].pc = "running"
    /\ \E okJob \in BOOLEAN, okStage \in BOOLEAN, mkOk \in BOOLEAN :
         /\ Faults(<<okJob, okStage>>)
         /\ mkOk \/ ~Reliable
         /\ job' = ApplyUpdate(job, [state |-> "running", started_at |-> TRUE], okJob)
         /\ asset' = ApplyUpdate(asset, [processing_stage |-> "transcoding"], okStage)
         /\ ws' = [ws EXCEPT !.output = @ \/ mkOk]
         /\ wk' = [wk EXCEPT ![w].pc = IF mkOk THEN "download"
                                        ELSE OnException("process")]
    /\ UNCHANGED <<consumers, now, msg, hb>>
    /\ UNCHANGED remote
    /\ UNCHANGED lisVars
    /\ UNCHANGED runVars
    /\ UNCHANGED pureVars

\* process_job: download_from_wasabi returns.  On success the heartbeat is
\* created and started (its first extension is one interval away); on failure
\* the except clause marks the job failed.  A failed transfer may leave a
\* partial input file.  (A renewal call that an earlier execution left in
\* flight has returned before the download ends.)
DownloadFromWasabi(w) ==
    /\ wk[w].pc = "download"
    /\ hb[w].state # "calling"
    /\ \E ok \in BOOLEAN, okFail \in BOOLEAN, left \in BOOLEAN :
         /\ ok => left
         /\ Reliable => (left = ok)
         /\ ws' = [ws EXCEPT !.input = @ \/ left]
         /\ IF ok
            THEN /\ okFail
                 /\ hb' = [hb EXCEPT ![w] =
                             StartHb([NoHeartbeat EXCEPT !.rh = wk[w].rh], now)]
                 /\ wk' = [wk EXCEPT ![w].pc = "transcode"]
                 /\ UNCHANGED <<job, dbErrors>>
            ELSE /\ Faults(<<okFail>>)
                 /\ job' = FailJob(job, okFail)
                 /\ wk' = [wk EXCEPT ![w].pc = "finally", ![w].result = FALSE]
                 /\ UNCHANGED hb
    /\ UNCHANGED <<asset, consumers, now, msg>>
    /\ UNCHANGED remote
    /\ UNCHANGED lisVars
    /\ UNCHANGED runVars
    /\ UNCHANGED pureVars

\* transcode_video: ffmpeg writes a time= marker further on than its last
\* one.  A marker that passes the throttle (5 s since the last update, or 10
\* points above it) is persisted with processing_stage "transcoding"; any
\* other marker is dropped.
TranscodeProgress(w) ==
    /\ wk[w].pc = "transcode"
    /\ \E t \in MarkerTimes, elapsed5 \in BOOLEAN, ok \in BOOLEAN :
         LET p == ProgressPercent(t)
         IN
         /\ t > wk[w].mark
         /\ Reliable => t = DurationSeconds \div 2
         /\ IF elapsed5 \/ p - wk[w].pct >= 10
            THEN /\ Faults(<<ok>>)
                 /\ asset' = ApplyUpdate(asset,
                        [processing_stage |-> "transcoding", transcode_progress |-> p],
                        ok)
                 /\ wk' = [wk EXCEPT ![w].pct = p, ![w].mark = t]
            ELSE /\ ok
                 /\ wk' = [wk EXCEPT ![w].mark = t]
                 /\ UNCHANGED <<asset, dbErrors>>
    /\ UNCHANGED <<job, consumers, now, msg, hb>>
    /\ UNCHANGED remote
    /\ UNCHANGED ws
    /\ UNCHANGED lisVars
    /\ UNCHANGED runVars
    /\ UNCHANGED pureVars

\* transcode_video returns; ffmpeg has written into the output directory.
\* "ok": exit code 0 and the manifest exists:
\* progress 100 is persisted, then process_job persists "transcoded".
\* "ffmpeg_failed": non-zero exit code.  "no_manifest": exit code 0, progress
\* 100 persisted, manifest missing.  Both failures end in the except clause.
TranscodeExit(w) ==
    /\ wk[w].pc = "transcode"
    /\ \E outcome \in {"ok", "ffmpeg_failed", "no_manifest"},
          ok100 \in BOOLEAN, okNext \in BOOLEAN :
         LET a100 == ApplyUpdate(asset,
                        [processing_stage |-> "transcoding", transcode_progress |-> 100],
                        ok100)
         IN
         CASE outcome = "ok" ->
                /\ Faults(<<ok100, okNext>>)
                /\ asset' = ApplyUpdate(a100, [processing_stage |-> "transcoded"], okNext)
                /\ wk' = [wk EXCEPT ![w].pc = "storyboard", ![w].rc = 0]
                /\ UNCHANGED job
           [] outcome = "ffmpeg_failed" ->
                /\ ok100
                /\ Faults(<<okNext>>)
                /\ job' = FailJob(job, okNext)
                /\ wk' = [wk EXCEPT ![w].pc = "finally", ![w].result = FALSE,
                                    ![w].rc = 1]
                /\ UNCHANGED asset
           [] outcome = "no_manifest" ->
                /\ Faults(<<ok100, okNext>>)
                /\ asset' = a100
                /\ job' = FailJob(job, okNext)
                /\ wk' = [wk EXCEPT ![w].pc = "finally", ![w].result = FALSE,
                                    ![w].rc = 0]
    /\ ws' = [ws EXCEPT !.files = TRUE]
    /\ UNCHANGED <<consumers, now, msg, hb>>
    /\ UNCHANGED remote
    /\ UNCHANGED lisVars
    /\ UNCHANGED runVars
    /\ UNCHANGED pureVars

\* A pipeline that gives up when there is no storyboard
AfterStoryboardRequired(sb) == IF sb THEN "upload" ELSE "finally"
\* process_job: `storyboard_data = generate_storyboard_thumbnails(...)` is
\* followed by the upload whatever it returned
AfterStoryboard(sb) == "upload"

\* process_job: generate_storyboard_thumbnails returns the storyboard data or
\* None (a warning is logged); the pipeline goes on either way.  It creates
\* the subdirectory thumbnails/ of the output directory before it runs ffmpeg,
\* so a failure may come before or after that.
GenerateStoryboard(w) ==
    /\ wk[w].pc = "storyboard"
    /\ \E sb \in BOOLEAN, made \in BOOLEAN :
         /\ sb => made
         /\ Reliable => (made = sb)
         /\ ws' = [ws EXCEPT !.sub = @ \/ made]
         /\ wk' = [wk EXCEPT ![w].pc = AfterStoryboard(sb), ![w].storyboard = sb]
    /\ UNCHANGED <<job, asset, dbErrors, consumers, now, msg, hb>>
    /\ UNCHANGED remote
    /\ UNCHANGED lisVars
    /\ UNCHANGED runVars
    /\ UNCHANGED pureVars

\* process_job: upload_to_wasabi returns; on failure the except clause marks
\* the job failed.
UploadToWasabi(w) ==
    /\ wk[w].pc = "upload"
    /\ \E ok \in BOOLEAN, okFail \in BOOLEAN, k \in 0..OutputFiles :
         /\ ok = UploadResult(k)
         /\ remote' = Uploaded(remote, k)
         /\ wk' = [wk EXCEPT ![w].pc = AfterUpload(ok), ![w].uploaded = ok]
         /\ IF ok
            THEN /\ okFail
                 /\ UNCHANGED <<job, dbErrors>>
            ELSE /\ Faults(<<okFail>>)
                 /\ job' = FailJob(job, okFail)
    /\ UNCHANGED <<asset, consumers, now, msg, hb>>
    /\ UNCHANGED ws
    /\ UNCHANGED lisVars
    /\ UNCHANGED runVars
    /\ UNCHANGED pureVars

\* process_job after the upload: update_media_asset_derivatives, the job
\* update to succeeded, the asset update to complete / ready (its failure is
\* logged only), and `return True`.
Finalize(w) ==
    /\ wk[w].pc = "finalize"
    /\ \E okDeriv \in BOOLEAN, okJob \in BOOLEAN, okStage \in BOOLEAN :
         LET derivatives ==
                IF wk[w].storyboard
                THEN [streaming_ready |-> TRUE, thumbnail_path |-> "storyboard_000.jpg"]
                ELSE [streaming_ready |-> TRUE]
             a1 == ApplyUpdate(asset, derivatives, okDeriv)
         IN
         /\ Faults(<<okDeriv, okJob, okStage>>)
         /\ job' = ApplyUpdate(job,
                      [state |-> "succeeded", finished_at |-> TRUE, progress |-> 100], okJob)
         /\ asset' = ApplyUpdate(a1,
                        [processing_stage |-> "complete", status |-> "ready"], okStage)
    /\ wk' = [wk EXCEPT ![w].pc = "finally", ![w].result = TRUE]
    /\ UNCHANGED <<consumers, now, msg, hb>>
    /\ UNCHANGED remote
    /\ UNCHANGED ws
    /\ UNCHANGED lisVars
    /\ UNCHANGED runVars
    /\ UNCHANGED pureVars

\* The finally clause of process_job: heartbeat.stop() when a heartbeat was
\* created, then the workspace is removed and process_job returns.
Finally(w) ==
    /\ wk[w].pc = "finally"
    /\ hb' = [hb EXCEPT ![w] = StopHb(@)]
    /\ ws' = Cleanup(ws)
    /\ wk' = [wk EXCEPT ![w].pc = "ack"]
    /\ UNCHANGED <<job, asset, dbErrors, consumers, now, msg>>
    /\ UNCHANGED remote
    /\ UNCHANGED lisVars
    /\ UNCHANGED runVars
    /\ UNCHANGED pureVars

\* main() after process_job: `if success: sqs.delete_message`, else the
\* message is left to reappear.  A delete with the handle of the latest
\* receive removes the message; with a handle of an earlier receive SQS may
\* or may not remove it; a delete that raises removes nothing and `except
\* Exception` takes over.  The heartbeat of the execution is dropped with
\* the locals of process_job; a thread that stop() left at its renewal call
\* lives on until the call has returned.
Ack(w) ==
    /\ wk[w].pc = "ack"
    /\ \E removed \in BOOLEAN, raised \in BOOLEAN :
         /\ raised => Acknowledged(wk[w].result) /\ ~Reliable /\ ~removed
         /\ (~Acknowledged(wk[w].result) \/ msg.deleted) => ~removed
         /\ (Acknowledged(wk[w].result) /\ ~raised /\ ~msg.deleted
                /\ wk[w].rh = msg.handle) => removed
         /\ msg' = [msg EXCEPT !.deleted = @ \/ removed]
         /\ wk' = [wk EXCEPT ![w] =
                     [IdleWorker EXCEPT !.pc = IF raised THEN OnException("delete")
                                                ELSE "poll"]]
    /\ hb' = [hb EXCEPT ![w] = IF @.state = "calling"
                                THEN [@ EXCEPT !.orphan = TRUE]
                                ELSE NoHeartbeat]
    /\ UNCHANGED <<job, asset, dbErrors, consumers, now>>
    /\ UNCHANGED remote
    /\ UNCHANGED ws
    /\ UNCHANGED lisVars
    /\ UNCHANGED runVars
    /\ UNCHANGED pureVars

\* VisibilityHeartbeat._heartbeat_loop: stop_event.wait(interval) timed out
\* and returned False; the thread goes on to the renewal call.
HeartbeatWake(w) ==
    /\ hb[w].state = "running"
    /\ now >= hb[w].next
    /\ hb' = [hb EXCEPT ![w].state = "calling"]
    /\ UNCHANGED <<job, asset, dbErrors, consumers, now, msg, wk>>
    /\ UNCHANGED remote
    /\ UNCHANGED ws
    /\ UNCHANGED lisVars
    /\ UNCHANGED runVars
    /\ UNCHANGED pureVars

\* VisibilityHeartbeat._heartbeat_loop: change_message_visibility.  Accepted,
\* it sets the expiry to EXTENSION_SECONDS from now and the loop waits again.
\* When the call raises (SQS rejects the handle, or the request fails) the
\* loop records the error, calls on_failure (whose own exception is caught)
\* and breaks.  The thread of an orphaned heartbeat ends after its call
\* either way (stop_event is set) and the object is gone with it.
HeartbeatBeat(w) ==
    /\ hb[w].state = "calling"
    /\ \E sent \in BOOLEAN :
         IF sent /\ HandleInFlight(hb[w].rh)
         THEN /\ msg' = [msg EXCEPT !.visibleAt = now + EXTENSION_SECONDS]
              /\ hb' = [hb EXCEPT ![w] =
                          IF @.orphan
                          THEN NoHeartbeat
                          ELSE [@ EXCEPT !.count = Counted(@, TRUE),
                                         !.calls = @ + 1,
                                         !.next = now + HEARTBEAT_INTERVAL,
                                         !.state = AfterRenewal(hb[w])]]
         ELSE /\ hb' = [hb EXCEPT ![w] =
                          IF @.orphan
                          THEN NoHeartbeat
                          ELSE [@ EXCEPT !.count = Counted(@, FALSE),
                                         !.last_error = TRUE,
                                         !.calls = @ + 1,
                                         !.cb = IF hb[w].has_cb THEN @ + 1 ELSE @,
                                         !.next = now + HEARTBEAT_INTERVAL,
                                         !.state = AfterFailure(hb[w])]]
              /\ UNCHANGED msg
    /\ UNCHANGED <<job, asset, dbErrors, consumers, now, wk>>
    /\ UNCHANGED remote
    /\ UNCHANGED ws
    /\ UNCHANGED lisVars
    /\ UNCHANGED runVars
    /\ UNCHANGED pureVars

\* main(): sqs.receive_message raises (the request fails) and `except
\* Exception` takes over.
ReceiveRaises(w) ==
    /\ wk[w].pc = "poll"
    /\ wk' = [wk EXCEPT ![w].pc = OnException("receive")]
    /\ UNCHANGED <<job, asset, dbErrors, consumers, now, msg, hb>>
    /\ UNCHANGED remote
    /\ UNCHANGED ws
    /\ UNCHANGED lisVars
    /\ UNCHANGED runVars
    /\ UNCHANGED pureVars

\* main(): the handler of `except Exception` has logged worker_error and
\* slept its 5 seconds; the loop starts its next iteration.
Backoff(w) ==
    /\ wk[w].pc = "backoff"
    /\ wk' = [wk EXCEPT ![w] = IdleWorker]
    /\ UNCHANGED <<job, asset, dbErrors, consumers, now, msg, hb>>
    /\ UNCHANGED remote
    /\ UNCHANGED ws
    /\ UNCHANGED lisVars
    /\ UNCHANGED runVars
    /\ UNCHANGED pureVars

\* main(): the operator interrupts the worker while it sits in the long poll
\* or in the back-off sleep: `except KeyboardInterrupt` logs worker_shutdown
\* and breaks out of the loop.
Interrupt(w) ==
    /\ wk[w].pc \in {"poll", "backoff"}
    /\ wk' = [wk EXCEPT ![w].pc = "exit"]
    /\ UNCHANGED <<job, asset, dbErrors, consumers, now, msg, hb>>
    /\ UNCHANGED remote
    /\ UNCHANGED ws
    /\ UNCHANGED lisVars
    /\ UNCHANGED runVars
    /\ UNCHANGED pureVars

\* Time passes while a consumer waits on a transfer or on the transcoder, or
\* while every consumer sits in the long poll and the message is hidden.  A
\* heartbeat whose interval has elapsed wakes and makes its call first.
Tick ==
    /\ now < MaxTicks * TickSeconds
    /\ \/ \E w \in consumers : wk[w].pc \in Waiting
       \/ /\ \A w \in consumers : wk[w].pc = "poll"
          /\ ~msg.deleted
          /\ now < msg.visibleAt
    /\ \A w \in consumers :
         /\ hb[w].state = "running" => now < hb[w].next
         /\ hb[w].state # "calling"
    /\ now' = now + TickSeconds
    /\ UNCHANGED <<job, asset, dbErrors, consumers, msg, wk, hb>>
    /\ UNCHANGED remote
    /\ UNCHANGED ws
    /\ UNCHANGED lisVars
    /\ UNCHANGED runVars
    /\ UNCHANGED pureVars

NextSqs ==
    \/ Tick
    \/ \E w \in consumers :
         \/ ReceiveMessage(w)
         \/ GetJobDetails(w)
         \/ SetRunning(w)
         \/ DownloadFromWasabi(w)
         \/ TranscodeProgress(w)
         \/ TranscodeExit(w)
         \/ GenerateStoryboard(w)
         \/ UploadToWasabi(w)
         \/ Finalize(w)
         \/ Finally(w)
         \/ Ack(w)
         \/ HeartbeatWake(w)
         \/ HeartbeatBeat(w)
         \/ Backoff(w)
         \/ ReceiveRaises(w)
         \/ Interrupt(w)

\* The consumers with a reliable queue API and no operator at the console
NextPair ==
    \/ Tick
    \/ \E w \in consumers :
         \/ ReceiveMessage(w)
         \/ GetJobDetails(w)
         \/ SetRunning(w)
         \/ DownloadFromWasabi(w)
         \/ TranscodeProgress(w)
         \/ TranscodeExit(w)
         \/ GenerateStoryboard(w)
         \/ UploadToWasabi(w)
         \/ Finalize(w)
         \/ Finally(w)
         \/ Ack(w)
         \/ HeartbeatWake(w)
         \/ HeartbeatBeat(w)
         \/ Backoff(w)

----------------------------------------------------------------------------
(* The listener (listener.py) and the StreamWorker threads it starts       *)

Jobs == {"j1", "j2"}
Media == {"m1", "m2"}

\* can_add_worker: the defaults of cpu_threshold (percent) and min_free_mem_mb
CPU_THRESHOLD == 75
MIN_FREE_MEM_MB == 500
\* `vm.available / (1024 * 1024)`
MiB == 1024 * 1024

\* The loads psutil may report: CPU in tenths of a percent, available memory
\* in bytes, just below, at and just above the two limits
CpuSamples == {CPU_THRESHOLD * 10 - 1, CPU_THRESHOLD * 10, CPU_THRESHOLD * 10 + 1}
AvailSamples == {MIN_FREE_MEM_MB * MiB - 1, MIN_FREE_MEM_MB * MiB, MIN_FREE_MEM_MB * MiB + 1}

\* An admission check that lets the limits themselves through
CanAddWorkerInclusive(cpu10, avail) ==
    /\ cpu10 <= CPU_THRESHOLD * 10
    /\ avail >= MIN_FREE_MEM_MB * MiB
\* can_add_worker: `(cpu < cpu_threshold) and (free_mb > min_free_mem_mb)`
\* with free_mb = avail / MiB (the division by a power of two is exact)
CanAddWorker(cpu10, avail) ==
    /\ cpu10 < CPU_THRESHOLD * 10
    /\ avail > MIN_FREE_MEM_MB * MiB

\* No can_add_worker call was made yet
NoSample == [job |-> "none", cpu |-> 0, avail |-> 0]

\* The entry of job j in the dict `workers`: "absent" (no key), or the state
\* of the thread its StreamWorker runs: "started" (before _start_job),
\* "running" (in the pipeline), "finished" (run() has returned or raised).
\* Thread.is_alive():
IsAlive(t) == t \in {"started", "running"}

\* A cleanup that drops every handle
ReapedAll(t) == [j \in Jobs |-> "absent"]
\* cleanup_finished_workers: `del workers[job_id]` for every job whose
\* worker is not alive
Reaped(t) == [j \in Jobs |-> IF t[j] # "absent" /\ ~IsAlive(t[j]) THEN "absent" ELSE t[j]]

\* StreamWorker.run: input_mp4_path and output_hls_path of the worker of job j
InputPath(j) == <<"/tmp/", media[j], "-input.mp4">>
OutputPath(j) == <<"/tmp/", media[j], "/">>

\* The listener does not run
NoListener ==
    /\ rows = [j \in Jobs |-> "queued"]
    /\ media = [j \in Jobs |-> "m1"]
    /\ workers = [j \in Jobs |-> "absent"]
    /\ todo = {}
    /\ lpc = "select"
    /\ sample = NoSample
    /\ starts = [j \in Jobs |-> 0]

\* The head of the loop: the select of the queued transcode jobs
ListenerSelect ==
    /\ lpc = "select"
    /\ todo' = {j \in Jobs : rows[j] = "queued"}
    /\ lpc' = "cleanup"
    /\ UNCHANGED <<rows, media, workers, sample>>
    /\ UNCHANGED <<job, asset, dbErrors, remote, ws>>
    /\ UNCHANGED runVars
    /\ UNCHANGED sqsVars
    /\ UNCHANGED pureVars
    /\ UNCHANGED starts

\* cleanup_finished_workers()
CleanupFinishedWorkers ==
    /\ lpc = "cleanup"
    /\ workers' = Reaped(workers)
    /\ lpc' = "pickup"
    /\ UNCHANGED <<rows, media, todo, sample>>
    /\ UNCHANGED <<job, asset, dbErrors, remote, ws>>
    /\ UNCHANGED runVars
    /\ UNCHANGED sqsVars
    /\ UNCHANGED pureVars
    /\ UNCHANGED starts

\* One pass of `for job in active_jobs`: `if job.job_id not in workers and
\* can_add_worker()` (the load is read only when the job has no handle), then
\* workers[job.job_id] = StreamWorker(job, supabase) and start().
Pickup(j) ==
    /\ lpc = "pickup"
    /\ j \in todo
    /\ todo' = todo \ {j}
    /\ starts[j] < MaxStarts
    /\ IF workers[j] # "absent"
       THEN UNCHANGED <<workers, sample, starts>>
       ELSE \E cpu10 \in CpuSamples, avail \in AvailSamples :
              /\ sample' = [job |-> j, cpu |-> cpu10, avail |-> avail]
              /\ IF CanAddWorker(cpu10, avail)
                 THEN /\ workers' = [workers EXCEPT ![j] = "started"]
                      /\ starts' = [starts EXCEPT ![j] = @ + 1]
                 ELSE UNCHANGED <<workers, starts>>
    /\ UNCHANGED <<rows, media, lpc>>
    /\ UNCHANGED <<job, asset, dbErrors, remote, ws>>
    /\ UNCHANGED runVars
    /\ UNCHANGED sqsVars
    /\ UNCHANGED pureVars

\* The for loop is over: time.sleep(5) and the next iteration
ListenerSleep ==
    /\ lpc = "pickup"
    /\ todo = {}
    /\ lpc' = "select"
    /\ UNCHANGED <<rows, media, workers, todo, sample>>
    /\ UNCHANGED <<job, asset, dbErrors, remote, ws>>
    /\ UNCHANGED runVars
    /\ UNCHANGED sqsVars
    /\ UNCHANGED pureVars
    /\ UNCHANGED starts

\* The thread of job j enters run(): _start_job writes state running (the
\* update may be lost), then os.makedirs, which ends the thread if it raises.
WorkerStartJob(j) ==
    /\ workers[j] = "started"
    /\ \E okStart \in BOOLEAN, mkOk \in BOOLEAN :
         /\ rows' = [rows EXCEPT ![j] = IF okStart THEN "running" ELSE @]
         /\ workers' = [workers EXCEPT ![j] = IF mkOk THEN "running" ELSE "finished"]
    /\ UNCHANGED <<media, todo, lpc, sample>>
    /\ UNCHANGED <<job, asset, dbErrors, remote, ws>>
    /\ UNCHANGED runVars
    /\ UNCHANGED sqsVars
    /\ UNCHANGED pureVars
    /\ UNCHANGED starts

\* The thread of job j leaves run(): the job was completed, or marked failed
\* (attempts exhausted, exception), or the last update was lost.
WorkerFinish(j) ==
    /\ workers[j] = "running"
    /\ \E out \in {"succeeded", "failed", "lost"} :
         rows' = [rows EXCEPT ![j] = IF out = "lost" THEN @ ELSE out]
    /\ workers' = [workers EXCEPT ![j] = "finished"]
    /\ UNCHANGED <<media, todo, lpc, sample>>
    /\ UNCHANGED <<job, asset, dbErrors, remote, ws>>
    /\ UNCHANGED runVars
    /\ UNCHANGED sqsVars
    /\ UNCHANGED pureVars
    /\ UNCHANGED starts

NextListener ==
    \/ ListenerSelect
    \/ CleanupFinishedWorkers
    \/ ListenerSleep
    \/ \E j \in Jobs :
         \/ Pickup(j)
         \/ WorkerStartJob(j)
         \/ WorkerFinish(j)

----------------------------------------------------------------------------
(* generate_storyboard_thumbnails: the cue file storyboard.vtt.  Times are  *)
(* in milliseconds.                                                         *)

HLS_SEGMENT_SECONDS == 6
THUMBNAIL_WIDTH == 320
STORYBOARD_COLUMNS == 5
STORYBOARD_ROWS == 5

\* parse_hls_segment_durations for a manifest of n segments of seg
\* milliseconds each, the last one `last` milliseconds long
Durations(n, seg, last) == [i \in 1..n |-> IF i = n THEN last ELSE seg]

\* format_vtt_timestamp: hours, minutes and the seconds with three decimals
FormatVttTimestamp(ms) ==
    LET total == IF ms > 0 THEN ms ELSE 0
    IN  <<total \div 3600000, (total % 3600000) \div 60000, total % 60000>>

\* A cue for every segment, whatever the sprites hold
FrameCountUncapped(n, sprites) == n
\* frame_count = min(len(durations), len(sprite_files) * frames_per_sprite)
FrameCount(n, sprites) == Min(n, sprites * (STORYBOARD_COLUMNS * STORYBOARD_ROWS))

\* `durations[idx] if idx < len(durations) else HLS_SEGMENT_SECONDS`
SegmentDuration(d, idx) ==
    IF idx < Len(d) THEN d[idx + 1] ELSE HLS_SEGMENT_SECONDS * 1000

\* current_time at the head of iteration idx of the cue loop
RECURSIVE CurrentTime(_, _)
CurrentTime(d, idx) ==
    IF idx = 0 THEN 0 ELSE CurrentTime(d, idx - 1) + SegmentDuration(d, idx - 1)

\* The cue that iteration idx of the loop appends: its time range and the
\* sprite fragment storyboard_<sprite>.jpg#xywh=x,y,w,h
Cue(d, idx, height) ==
    LET frames_per_sprite == STORYBOARD_COLUMNS * STORYBOARD_ROWS
        index_in_sprite == idx % frames_per_sprite
        col == index_in_sprite % STORYBOARD_COLUMNS
        row == index_in_sprite \div STORYBOARD_COLUMNS
    IN  [start |-> FormatVttTimestamp(CurrentTime(d, idx)),
         end |-> FormatVttTimestamp(CurrentTime(d, idx) + SegmentDuration(d, idx)),
         sprite |-> idx \div frames_per_sprite,
         x |-> col * THUMBNAIL_WIDTH,
         y |-> row * height,
         w |-> THUMBNAIL_WIDTH,
         h |-> height]

\* The cues of the file, in order
CueFile(d, sprites, height) ==
    [i \in 1..FrameCount(Len(d), sprites) |-> Cue(d, i - 1, height)]

\* generate_storyboard_thumbnails was not called
NoStoryboard ==
    [pc |-> "idle", durations |-> <<>>, sprites |-> 0, height |-> 0,
     result |-> "pending", vtt |-> <<>>]

\* generate_storyboard_thumbnails: None when the manifest has no durations,
\* when the dimensions of the video are unknown (height 0), when ffmpeg
\* left no sprite, or when the cue file cannot be written; else the cue
\* file is written.
GenerateStoryboardThumbnails ==
    /\ board.pc = "call"
    /\ \E written \in BOOLEAN :
         IF Len(board.durations) = 0 \/ board.height = 0 \/ board.sprites = 0
         THEN /\ written
              /\ board' = [board EXCEPT !.pc = "returned", !.result = "none"]
         ELSE board' = [board EXCEPT !.pc = "returned",
                               !.result = IF written THEN "written" ELSE "none",
                               !.vtt = IF written
                                       THEN CueFile(board.durations, board.sprites, board.height)
                                       ELSE <<>>]
    /\ UNCHANGED api
    /\ UNCHANGED <<job, asset, dbErrors, remote, ws>>
    /\ UNCHANGED lisVars
    /\ UNCHANGED runVars
    /\ UNCHANGED sqsVars

NextStoryboard == GenerateStoryboardThumbnails

----------------------------------------------------------------------------
(* The backend API: policy.assert_same_org and the route POST /clips        *)

Orgs == {"org1", "org2"}
Roles == {"admin", "analyst", "coach", "player"}

\* Python's None, and the mark of a key that a request body does not have
NoValue == "None"
Missing == "<missing>"

\* The truth value Python gives an Optional[str]
Truthy(x) == x \notin {NoValue, ""}

\* A check that denies whatever is not the user's own organisation
CrossOrgDeniedUnlessEqual(user_org, record_org_id) == record_org_id # user_org
\* assert_same_org: `if record_org_id and record_org_id != user.org_id:
\* raise HTTPException(403, "Cross-org access denied")`
CrossOrgDenied(user_org, record_org_id) ==
    Truthy(record_org_id) /\ record_org_id # user_org

\* A role gate that lets admins only through
RoleGateAdminsOnly(role) == role # "admin"
\* create_clip: `if user.role == "player": raise HTTPException(403)`
RoleGate(role) == role = "player"

\* body.setdefault("org_id", user.org_id): the value under the key org_id
\* afterwards
SetDefault(body_org_id, user_org) ==
    IF body_org_id = Missing THEN user_org ELSE body_org_id

\* No request was served yet
NoCall ==
    [op |-> "none", role |-> "none", user_org |-> "none", arg |-> "none",
     status |-> "none", db_ops |-> 0]
NoApi == [clips |-> <<>>, call |-> NoCall]

\* assert_same_org(user, record_org_id) for a record whose organisation
\* column is None, empty or an organisation
AssertSameOrg ==
    /\ \E role \in Roles, user_org \in Orgs, record_org_id \in {NoValue, ""} \cup Orgs :
         api' = [api EXCEPT !.call =
                    [op |-> "assert_same_org", role |-> role, user_org |-> user_org,
                     arg |-> record_org_id,
                     status |-> IF CrossOrgDenied(user_org, record_org_id)
                                THEN "403" ELSE "returned",
                     db_ops |-> 0]]
    /\ UNCHANGED board
    /\ UNCHANGED <<job, asset, dbErrors, remote, ws>>
    /\ UNCHANGED lisVars
    /\ UNCHANGED runVars
    /\ UNCHANGED sqsVars

\* POST /clips: the role gate, then setdefault and the INSERT of the body;
\* an INSERT that fails raises out of the handler (500).  The body has no
\* key org_id, or carries None or an organisation under it.  A row of
\* clips is kept with the organisation of the user who created it (by).
CreateClip ==
    /\ Len(api.clips) < MaxClips
    /\ \E role \in Roles, user_org \in Orgs,
          body_org_id \in {Missing, NoValue} \cup Orgs, dbOk \in BOOLEAN :
         LET call == [op |-> "create_clip", role |-> role, user_org |-> user_org,
                      arg |-> body_org_id, status |-> "403", db_ops |-> 0]
             row == [org_id |-> SetDefault(body_org_id, user_org), by |-> user_org]
         IN
         IF RoleGate(role)
         THEN /\ dbOk
              /\ api' = [api EXCEPT !.call = call]
         ELSE IF dbOk
         THEN api' = [clips |-> Append(api.clips, row),
                      call |-> [call EXCEPT !.status = "201", !.db_ops = 1]]
         ELSE api' = [api EXCEPT !.call =
                         [call EXCEPT !.status = "500", !.db_ops = 1]]
    /\ UNCHANGED board
    /\ UNCHANGED <<job, asset, dbErrors, remote, ws>>
    /\ UNCHANGED lisVars
    /\ UNCHANGED runVars
    /\ UNCHANGED sqsVars

NextApi ==
    \/ AssertSameOrg
    \/ CreateClip

\* Neither the storyboard generator nor the API is in use
NoPure ==
    /\ board = NoStoryboard
    /\ api = NoApi

----------------------------------------------------------------------------

\* One consumer process
Init ==
    /\ consumers = {"w1"}
    /\ job = InitJob
    /\ asset = InitAsset
    /\ dbErrors = 0
    /\ remote = 0
    /\ stage = "START"
    /\ attempts = 0
    /\ pc = "init"
    /\ execLog = <<>>
    /\ raisedAt = "none"
    /\ now = 0
    /\ msg \in {[body |-> b, deleted |-> FALSE, visibleAt |-> 0, handle |-> 0] :
                   b \in Bodies}
    /\ wk = [w \in Workers |-> IdleWorker]
    /\ hb = [w \in Workers |-> NoHeartbeat]
    /\ ws = NoWorkspace
    /\ NoListener
    /\ NoPure

SpecRun == Init /\ [][NextRun]_vars

SpecSqs == Init /\ [][NextSqs]_vars

\* Either deployment on its own: the listener's StreamWorker thread, or one
\* SQS consumer.
NextEither ==
    \/ NextRun /\ msg.handle = 0
    \/ NextSqs /\ pc = "init"

SpecEither == Init /\ [][NextEither]_vars

\* Two consumer processes competing for the message
InitPair ==
    /\ consumers = Workers
    /\ job = InitJob
    /\ asset = InitAsset
    /\ dbErrors = 0
    /\ remote = 0
    /\ stage = "START"
    /\ attempts = 0
    /\ pc = "init"
    /\ execLog = <<>>
    /\ raisedAt = "none"
    /\ now = 0
    /\ msg \in {[body |-> b, deleted |-> FALSE, visibleAt |-> 0, handle |-> 0] :
                   b \in Bodies}
    /\ wk = [w \in Workers |-> IdleWorker]
    /\ hb = [w \in Workers |-> NoHeartbeat]
    /\ ws = NoWorkspace
    /\ NoListener
    /\ NoPure

SpecSqsPair == InitPair /\ [][NextPair]_vars

\* The listener with two queued transcode jobs, for one media asset or for two
InitListener ==
    /\ consumers = {"w1"}
    /\ job = InitJob
    /\ asset = InitAsset
    /\ dbErrors = 0
    /\ remote = 0
    /\ stage = "START"
    /\ attempts = 0
    /\ pc = "init"
    /\ execLog = <<>>
    /\ raisedAt = "none"
    /\ now = 0
    /\ msg = [body |-> "ok", deleted |-> FALSE, visibleAt |-> 0, handle |-> 0]
    /\ wk = [w \in Workers |-> IdleWorker]
    /\ hb = [w \in Workers |-> NoHeartbeat]
    /\ ws = NoWorkspace
    /\ rows = [j \in Jobs |-> "queued"]
    /\ media \in [Jobs -> Media]
    /\ workers = [j \in Jobs |-> "absent"]
    /\ todo = {}
    /\ lpc = "select"
    /\ sample = NoSample
    /\ starts = [j \in Jobs |-> 0]
    /\ NoPure

SpecListener == InitListener /\ [][NextListener]_vars

\* One call of generate_storyboard_thumbnails, for a manifest of up to
\* MaxSegments segments (6 s or 6.006 s each, the last one as long or 1.5 s)
\* and up to MaxSprites sprite sheets
InitStoryboard ==
    /\ consumers = {"w1"}
    /\ job = InitJob
    /\ asset = InitAsset
    /\ dbErrors = 0
    /\ remote = 0
    /\ stage = "START"
    /\ attempts = 0
    /\ pc = "init"
    /\ execLog = <<>>
    /\ raisedAt = "none"
    /\ now = 0
    /\ msg = [body |-> "ok", deleted |-> FALSE, visibleAt |-> 0, handle |-> 0]
    /\ wk = [w \in Workers |-> IdleWorker]
    /\ hb = [w \in Workers |-> NoHeartbeat]
    /\ ws = NoWorkspace
    /\ NoListener
    /\ api = NoApi
    /\ \E n \in 0..MaxSegments, seg \in {6000, 6006}, short \in BOOLEAN,
          sprites \in 0..MaxSprites, height \in {0, 180} :
         board = [NoStoryboard EXCEPT
                 !.pc = "call",
                 !.durations = Durations(n, seg, IF short THEN 1500 ELSE seg),
                 !.sprites = sprites,
                 !.height = height]

SpecStoryboard == InitStoryboard /\ [][NextStoryboard]_vars

\* The backend serving requests, table clips empty at first
InitApi ==
    /\ consumers = {"w1"}
    /\ job = InitJob
    /\ asset = InitAsset
    /\ dbErrors = 0
    /\ remote = 0
    /\ stage = "START"
    /\ attempts = 0
    /\ pc = "init"
    /\ execLog = <<>>
    /\ raisedAt = "none"
    /\ now = 0
    /\ msg = [body |-> "ok", deleted |-> FALSE, visibleAt |-> 0, handle |-> 0]
    /\ wk = [w \in Workers |-> IdleWorker]
    /\ hb = [w \in Workers |-> NoHeartbeat]
    /\ ws = NoWorkspace
    /\ NoListener
    /\ NoPure

SpecApi == InitApi /\ [][NextApi]_vars

----------------------------------------------------------------------------
(* VisibilityHeartbeat on its own: an owner that holds a received message   *)
(* and calls start() and stop() in any order, at any time.                  *)

\* The owner calls heartbeat.start()
HbStart ==
    /\ hb' = [hb EXCEPT !["w1"] = StartHb(@, now)]
    /\ UNCHANGED <<job, asset, dbErrors, consumers, now, msg, wk>>
    /\ UNCHANGED remote
    /\ UNCHANGED ws
    /\ UNCHANGED lisVars
    /\ UNCHANGED runVars
    /\ UNCHANGED pureVars

\* The owner calls heartbeat.stop()
HbStop ==
    /\ hb' = [hb EXCEPT !["w1"] = StopHb(@)]
    /\ UNCHANGED <<job, asset, dbErrors, consumers, now, msg, wk>>
    /\ UNCHANGED remote
    /\ UNCHANGED ws
    /\ UNCHANGED lisVars
    /\ UNCHANGED runVars
    /\ UNCHANGED pureVars

NextHeartbeat ==
    \/ HbStart
    \/ HbStop
    \/ HeartbeatWake("w1")
    \/ HeartbeatBeat("w1")
    \/ Tick

\* The message was received at time 0 under handle 1 and its owner is busy
\* in a long stage; the heartbeat was constructed with or without on_failure.
InitHeartbeat ==
    /\ consumers = {"w1"}
    /\ job = InitJob
    /\ asset = InitAsset
    /\ dbErrors = 0
    /\ remote = 0
    /\ stage = "START"
    /\ attempts = 0
    /\ pc = "init"
    /\ execLog = <<>>
    /\ raisedAt = "none"
    /\ now = 0
    /\ msg = [body |-> "ok", deleted |-> FALSE, visibleAt |-> VISIBILITY_TIMEOUT,
              handle |-> 1]
    /\ wk = [w \in Workers |->
               IF w = "w1" THEN [IdleWorker EXCEPT !.pc = "transcode", !.rh = 1]
                           ELSE IdleWorker]
    /\ \E cb \in BOOLEAN :
         hb = [w \in Workers |->
                 IF w = "w1" THEN [NoHeartbeat EXCEPT !.has_cb = cb, !.rh = 1]
                 ELSE NoHeartbeat]
    /\ ws = [NoWorkspace EXCEPT !.input = TRUE, !.output = TRUE]
    /\ NoListener
    /\ NoPure

SpecHeartbeat == InitHeartbeat /\ [][NextHeartbeat]_vars

----------------------------------------------------------------------------
(* Properties of StreamWorker.run                                           *)

\* The executor calls of the history that returned failure in a blocking stage
FailedCalls == {i \in 1..Len(execLog) : ~execLog[i].ok /\ execLog[i].stage \in Blocking}
FailedCount == Cardinality(FailedCalls)

C3_NotLeftRunning == pc \in Done => job.state # "running"

\* C5: a failed attempt of a blocking stage leaves the stage pointer where it
\* was, and the next executor run() calls, if the ceiling lets it call one, is
\* the executor of that same stage: never an earlier stage, never a later one.
C5_RetrySameStage ==
    \A i \in FailedCalls :
        IF i < Len(execLog)
        THEN execLog[i + 1].stage = execLog[i].stage
        ELSE stage = execLog[i].stage

\* C5 witness: an upload that failed was followed by an upload that succeeded,
\* and the download ran once only.
C5_Witness ==
    /\ pc = "done_complete"
    /\ \E i \in FailedCalls :
         /\ execLog[i].stage = "UPLOAD_OUTPUT"
         /\ i < Len(execLog)
         /\ execLog[i + 1] = [stage |-> "UPLOAD_OUTPUT", ok |-> TRUE,
                               attempt |-> execLog[i].attempt + 1]
    /\ Cardinality({i \in 1..Len(execLog) : execLog[i].stage = "DOWNLOAD_INPUT"}) = 1

\* C6 as claimed: every stage executor call has its own increment of attempts,
\* so the i-th call is made with attempts = i.
C6_OneIncrementPerCall == \A i \in 1..Len(execLog) : execLog[i].attempt = i

\* C6 as amended: attempts is incremented once per loop pass, before the first
\* executor of the pass.  The first call is made with attempts = 1; a call
\* that follows a failed blocking attempt is made with attempts one higher; a
\* call that follows a success or a thumbnail failure is made in the same pass
\* with attempts unchanged.
C6_OneIncrementPerPass ==
    /\ (execLog # <<>> => execLog[1].attempt = 1)
    /\ \A i \in 1..(Len(execLog) - 1) :
         execLog[i + 1].attempt =
            execLog[i].attempt + (IF i \in FailedCalls THEN 1 ELSE 0)
    /\ (execLog # <<>> => attempts >= execLog[Len(execLog)].attempt)

\* C6 witness: a run with a retry and with four executors called in one pass.
C6_Witness ==
    /\ pc = "done_complete"
    /\ FailedCount >= 1
    /\ \E i \in 1..(Len(execLog) - 3) :
         /\ execLog[i].stage = "DOWNLOAD_INPUT"
         /\ execLog[i + 3].stage = "UPLOAD_OUTPUT"
         /\ execLog[i + 3].attempt = execLog[i].attempt

\* C7: after the ceiling is exhausted, and with every store update accepted,
\* the job row has state failed, finished_at and the error code
\* RETRY_EXHAUSTED.
C7_ExhaustionPersisted ==
    pc = "done_exhausted" /\ dbErrors = 0 =>
        /\ job.state = "failed"
        /\ job.finished_at
        /\ job.error_code = "RETRY_EXHAUSTED"

\* C8: an exception raised during run() does not leave the thread, and (with
\* every store update accepted) the job row gets state failed with the stage
\* current at the raise as its error code.
C8_ExceptionForcesFailed ==
    raisedAt # "none" /\ dbErrors = 0 =>
        /\ pc # "done_escaped"
        /\ job.state = "failed"
        /\ job.error_code = raisedAt

----------------------------------------------------------------------------
(* Properties of main() and process_job                                     *)

\* C2: between main() receiving the message and process_job returning for it,
\* while the consumer's receipt handle is the current one and no renewal call
\* has failed, the visibility expiry of the message lies in the future.
C2_LeaseNeverLapses ==
    \A w \in consumers :
        (/\ wk[w].pc \notin {"poll", "ack"}
         /\ ~msg.deleted
         /\ wk[w].rh = msg.handle
         /\ ~hb[w].last_error)
        => now < msg.visibleAt

\* C4: once the job row reads succeeded or failed, no step writes to it.
C4_TerminalIsFinal == [][job.state \in Terminal => job' = job]_vars

\* The order of the processing stages
Rank(s) ==
    CASE s = "uploaded" -> 0
      [] s = "transcoding" -> 1
      [] s = "transcoded" -> 2
      [] s = "complete" -> 3

\* C9: no step stores a processing_stage that lies before the stored one.
C9_StageNeverRolledBack ==
    [][Rank(asset'.processing_stage) >= Rank(asset.processing_stage)]_vars

\* C10: when process_job has run the pipeline to its `return True`, the stored
\* processing_stage is complete.
C10_SuccessLeavesComplete ==
    \A w \in consumers :
        wk[w].pc = "finally" /\ wk[w].result => asset.processing_stage = "complete"

----------------------------------------------------------------------------
(* Publication of the streaming output                                      *)

\* The derivative fields of the asset row
Derivatives(a) == <<a.streaming_ready, a.thumbnail_path>>

\* C11: in StreamWorker.run and in process_job, a step writes streaming_ready
\* or a derivative field only when the upload of the same execution has
\* returned success, with every output file in remote storage; so an upload
\* that fails on some file is followed by no such write in that execution,
\* and streaming_ready is never true with part of the output missing.
C11_DerivativesAfterUpload ==
    /\ [](asset.streaming_ready => remote = OutputFiles)
    /\ [][Derivatives(asset') # Derivatives(asset) =>
            \/ /\ Len(execLog') = Len(execLog) + 1
               /\ execLog'[Len(execLog')].stage = "UPLOAD_OUTPUT"
               /\ execLog'[Len(execLog')].ok
               /\ remote' = OutputFiles
            \/ \E w \in consumers :
                 /\ wk[w].pc = "finalize"
                 /\ wk[w].uploaded
                 /\ wk'[w].pc = "finally"
                 /\ remote = OutputFiles]_vars

\* C11 witness: the upload of process_job failed after its first file; the
\* execution is in its finally clause and the asset has no derivatives.
C11_Witness ==
    \E w \in consumers :
        /\ wk[w].pc = "finally"
        /\ ~wk[w].uploaded
        /\ remote = 1
        /\ Derivatives(asset) = Derivatives(InitAsset)

\* C12: when an execution of process_job ends without success, the asset is
\* in its pre-transcode state (processing_stage uploaded, streaming_ready not
\* true) and remote storage holds no file of the streaming output.
C12_NoPartialSuccess ==
    \A w \in consumers :
        wk[w].pc = "finally" /\ ~wk[w].result =>
            /\ asset.processing_stage = "uploaded"
            /\ ~asset.streaming_ready
            /\ remote = 0

----------------------------------------------------------------------------
(* Properties of the lease renewal loop                                     *)

\* C13: while a stage of process_job executes, heartbeat.start() has been
\* called for the message of the job.
C13_HeartbeatBeforeStages ==
    \A w \in consumers :
        wk[w].pc \in {"download", "transcode", "storyboard", "upload"}
            => hb[w].state # "none"

\* C14: when process_job has returned and a heartbeat was started in it,
\* stop() has been called on that heartbeat and its thread is not waiting for
\* a further interval, whether the pipeline succeeded or failed.
C14_HeartbeatStoppedOnExit ==
    \A w \in consumers :
        wk[w].pc = "ack" /\ hb[w].state # "none"
            => hb[w].stop_set /\ hb[w].state # "running"

\* C14 witness: process_job has returned False after the heartbeat had made
\* a renewal, and the heartbeat is stopped.
C14_Witness ==
    \E w \in consumers :
        /\ wk[w].pc = "ack"
        /\ ~wk[w].result
        /\ hb[w].state = "stopped"
        /\ hb[w].count >= 1

\* C15: once stop() has been called on a heartbeat, it issues no renewal call.
C15_NoRenewalAfterStop ==
    [][\A w \in consumers :
          hb[w].stop_set /\ hb'[w].stop_set => hb'[w].calls = hb[w].calls]_vars

\* The intervals the loop of heartbeat h has seen elapse: one per renewal
\* call issued, and one for the call it is about to issue.
Intervals(h) == h.calls + (IF h.state = "calling" THEN 1 ELSE 0)

\* C16 as claimed: after stop(), extension_count equals the number of
\* intervals that have elapsed.
C16_CountEqualsIntervals ==
    \A w \in consumers : hb[w].stop_set => hb[w].count = Intervals(hb[w])

\* C16 as amended: extension_count is the number of renewal calls that were
\* accepted.  It changes only in the step of an accepted call, by one; it
\* never exceeds the renewal calls issued, equals them as long as no call has
\* failed, and falls short of them by the failed calls (one on_failure call
\* each, when a callback was given).
C16_CountEqualsRenewals ==
    /\ [](\A w \in consumers :
            /\ hb[w].count <= hb[w].calls
            /\ (~hb[w].last_error => hb[w].count = hb[w].calls)
            /\ (hb[w].last_error => hb[w].count < hb[w].calls)
            /\ (hb[w].has_cb => hb[w].count + hb[w].cb = hb[w].calls))
    /\ [][\A w \in consumers :
            hb'[w].count # hb[w].count =>
                /\ hb'[w].count = hb[w].count + 1
                /\ hb'[w].calls = hb[w].calls + 1
                /\ hb'[w].last_error = hb[w].last_error
                /\ msg'.visibleAt = now + EXTENSION_SECONDS]_vars

\* C16 witness: two intervals elapsed before stop(); the first renewal was
\* accepted, the second failed, and the count is 1.
C16_Witness ==
    \E w \in consumers :
        /\ hb[w].stop_set
        /\ hb[w].last_error
        /\ hb[w].calls = 2
        /\ hb[w].count = 1

\* C17: stop() on a heartbeat that was never started, whose loop has ended
\* (by an earlier stop() or by a failed renewal), or that was stopped already
\* starts no thread, issues no renewal call and leaves extension_count and
\* last_error as they were; on a never-started heartbeat it changes nothing.
C17_StopIdempotent ==
    [][HbStop /\ (~Alive(hb["w1"]) \/ hb["w1"].stop_set) =>
          /\ hb'["w1"].state = hb["w1"].state
          /\ hb'["w1"].count = hb["w1"].count
          /\ hb'["w1"].calls = hb["w1"].calls
          /\ hb'["w1"].last_error = hb["w1"].last_error
          /\ hb'["w1"].cb = hb["w1"].cb
          /\ (hb["w1"].state = "none" => hb' = hb)
          /\ msg' = msg]_vars

\* C17 witness: stop() was called after the loop had ended by a failed
\* renewal, with extension_count and last_error still in place.
C17_Witness ==
    /\ hb["w1"].state = "exited"
    /\ hb["w1"].stop_set
    /\ hb["w1"].last_error
    /\ hb["w1"].count >= 1

\* C18: a failed renewal call ends the loop: the step of a failed call sets
\* last_error, makes exactly one on_failure call when a callback was given
\* (none otherwise) and leaves the loop ended whatever the callback does; a
\* loop ended this way has last_error set and issues no further call.
C18_FailureEndsLoop ==
    /\ [](\A w \in consumers :
            /\ (hb[w].state = "exited" => hb[w].last_error)
            /\ (~hb[w].has_cb => hb[w].cb = 0))
    /\ [][\A w \in consumers :
            /\ (hb'[w].calls # hb[w].calls /\ hb'[w].count = hb[w].count =>
                    /\ hb'[w].state = "exited"
                    /\ hb'[w].last_error
                    /\ hb'[w].cb = hb[w].cb + (IF hb[w].has_cb THEN 1 ELSE 0))
            /\ (hb[w].state = "exited" /\ hb'[w].state = "exited" =>
                    /\ hb'[w].calls = hb[w].calls
                    /\ hb'[w].cb = hb[w].cb)]_vars

\* C18 witness: the first renewal call of a heartbeat with a callback failed;
\* the loop has ended, the callback ran once, and time has moved on by more
\* than an interval with no further call.
C18_Witness ==
    \E w \in consumers :
        /\ hb[w].has_cb
        /\ hb[w].state = "exited"
        /\ hb[w].calls = 1
        /\ hb[w].cb = 1
        /\ hb[w].last_error
        /\ now >= hb[w].next + HEARTBEAT_INTERVAL

----------------------------------------------------------------------------
(* Properties of the message validation of main()                           *)

C20_MalformedMessageDiscarded ==
    msg.body # "ok" /\ msg.handle >= 1 => msg.deleted

----------------------------------------------------------------------------
(* Properties of the dispatcher loop of main()                              *)

\* C21: when process_job reads a job that is already succeeded or failed, it
\* returns at once: no job or asset field is written, nothing is uploaded, no
\* workspace is created, no heartbeat of this delivery exists or is started
\* (a thread that an earlier execution left at its renewal call may still
\* be there), no stage runs;
\* and main() then deletes the message that was answered this way.  This
\* holds for every delivery, so the records stay as the first finalization
\* left them.
C21_TerminalRedeliveryNoOp ==
    [][\A w \in consumers :
          /\ (wk[w].pc = "details" /\ job.state \in Terminal /\ wk'[w] # wk[w] =>
                 /\ wk'[w].pc = "ack"
                 /\ job' = job
                 /\ asset' = asset
                 /\ dbErrors' = dbErrors
                 /\ remote' = remote
                 /\ ws' = ws
                 /\ (hb[w] = NoHeartbeat \/ hb[w].orphan)
                 /\ hb' = hb)
          /\ (wk[w].pc = "ack" /\ wk[w].result /\ ~wk[w].uploaded
                 /\ wk'[w].pc = "poll" =>
                 /\ msg'.deleted
                 /\ job' = job
                 /\ asset' = asset
                 /\ remote' = remote
                 /\ ws' = ws)]_vars

\* C21 witness: the job succeeded, the delete of its message failed, and the
\* redelivered message was answered with True without an upload.
C21_Witness ==
    \E w \in consumers :
        /\ wk[w].pc = "ack"
        /\ wk[w].rh >= 2
        /\ wk[w].result
        /\ ~wk[w].uploaded
        /\ job.state = "succeeded"
        /\ ws = NoWorkspace
        /\ hb[w] = NoHeartbeat

\* C22: main() deletes the message of a valid payload if and only if
\* process_job returned True.  The iteration that ends without an exception
\* leaves the message deleted exactly when the result was True; a delete
\* that raises was issued for a True result and removes nothing; when
\* process_job raises the message is left as it is; and a message with a
\* valid payload is deleted by no other step.
C22_DeletedIffSuccess ==
    [][/\ \A w \in consumers :
            /\ (wk[w].pc = "ack" /\ wk'[w].pc = "poll" =>
                   (msg'.deleted <=> wk[w].result))
            /\ (wk[w].pc = "ack" /\ ~wk[w].result => ~msg'.deleted)
            /\ (wk[w].pc = "ack" /\ wk'[w].pc = "backoff" =>
                   wk[w].result /\ ~msg'.deleted)
            /\ (wk[w].pc = "running" /\ wk'[w].pc = "backoff" => ~msg'.deleted)
       /\ (msg.body = "ok" /\ msg'.deleted /\ ~msg.deleted =>
              \E w \in consumers : wk[w].pc = "ack" /\ wk[w].result)]_vars

\* C22 witness: the pipeline failed on the first delivery, process_job
\* returned False, and main() is polling again with the message still there.
C22_Witness ==
    \E w \in consumers :
        /\ wk[w].pc = "poll"
        /\ msg.body = "ok"
        /\ msg.handle = 1
        /\ ~msg.deleted
        /\ job.state = "failed"

\* C23: process_job does not answer the redelivered message of a failed job
\* with True unless it has run the pipeline for it: a consumer holding a
\* second or later delivery of a job recorded as failed is never about to
\* acknowledge it.
C23_RedeliveryRunsPipeline ==
    \A w \in consumers :
        ~(/\ wk[w].pc = "ack"
          /\ wk[w].rh >= 2
          /\ wk[w].result
          /\ job.state = "failed"
          /\ dbErrors = 0)

\* C28: an exception raised in an iteration of the poll loop (by the receive,
\* by the parsing of the body, by process_job, by the delete) leaves the
\* consumer in the back-off sleep, from which it polls again (or is
\* interrupted); the loop is left only from the long poll or the sleep, by
\* the operator's interrupt, which touches neither the message nor a record.
C28_DispatcherSurvives ==
    [][\A w \in consumers :
          /\ (wk[w].pc = "poll" /\ wk'[w].pc # "poll" =>
                 \/ wk'[w].pc = "backoff"
                 \/ wk'[w].pc = "details" /\ Parses(msg.body)
                 \/ wk'[w].pc = "exit" /\ msg' = msg)
          /\ (wk[w].pc = "poll" /\ msg'.handle # msg.handle /\ ~Parses(msg.body) =>
                 wk'[w].pc = "backoff")
          /\ (wk[w].pc = "running" /\ wk'[w].pc # "running" =>
                 wk'[w].pc \in {"download", "backoff"})
          /\ (wk[w].pc = "ack" /\ wk'[w].pc # "ack" =>
                 wk'[w].pc \in {"poll", "backoff"})
          /\ (wk[w].pc = "backoff" /\ wk'[w].pc # "backoff" =>
                 \/ wk'[w].pc = "poll"
                 \/ wk'[w].pc = "exit" /\ msg' = msg)
          /\ (wk'[w].pc = "exit" /\ wk[w].pc # "exit" =>
                 /\ wk[w].pc \in {"poll", "backoff"}
                 /\ job' = job
                 /\ asset' = asset)]_vars

\* C28 witness: the body of the message was not JSON; the exception of its
\* first delivery was caught, the consumer polled again, received the message
\* a second time and caught the exception again.
C28_Witness ==
    \E w \in consumers :
        /\ msg.body = "not_json"
        /\ msg.handle = 2
        /\ wk[w].pc = "backoff"

----------------------------------------------------------------------------
(* Properties of the workspace and of the stage order                       *)

\* C24: when an execution has ended (run() has returned or raised, or
\* process_job has returned or raised and main() is at the acknowledgement,
\* polling, backing off or gone) neither the input file nor the output
\* directory, with whatever files and subdirectory it held, exists.
C24_WorkspaceRemoved ==
    /\ (pc \in Done => ws = NoWorkspace)
    /\ (pc = "init" =>
          \A w \in consumers :
              wk[w].pc \in {"poll", "ack", "backoff", "exit"} => ws = NoWorkspace)

\* C24 witness: process_job has returned False after a storyboard had been
\* generated into thumbnails/ and the upload had failed; nothing is left.
C24_Witness ==
    \E w \in consumers :
        /\ wk[w].pc = "ack"
        /\ wk[w].storyboard
        /\ ~wk[w].result
        /\ job.state = "failed"
        /\ ws = NoWorkspace

C27_PredecessorSucceeded ==
    \A i \in 2..Len(execLog) :
        execLog[i].stage # execLog[i - 1].stage => execLog[i - 1].ok

\* The fixed order of the stage executors, and the place of a stage in it
C27_Order == <<"DOWNLOAD_INPUT", "TRANSCODE", "GENERATE_THUMBNAIL", "UPLOAD_OUTPUT">>
C27_Place(s) == CHOOSE k \in 1..Len(C27_Order) : C27_Order[k] = s

\* The positions of process_job in their fixed order
C27_SqsOrder == <<"running", "download", "transcode", "storyboard", "upload", "finalize">>
C27_SqsPlace(p) == CHOOSE k \in 1..Len(C27_SqsOrder) : C27_SqsOrder[k] = p

\* C27 as amended: the executors run one at a time in the fixed order.  In
\* run() the first call is the download; a call follows a successful call,
\* or a thumbnail call of either outcome, with the next stage in order, and
\* a failed download, transcode or upload with the same stage; no call
\* follows a successful upload or the end of run().  In process_job a stage
\* is entered only from the stage before it, after that stage returned (the
\* storyboard with either outcome, the others with success) and after the
\* record updates that follow it were issued; a stage is left for the next
\* one or for the finally clause.
C27_StagesInOrder ==
    /\ [](/\ (execLog # <<>> => execLog[1].stage = "DOWNLOAD_INPUT")
          /\ \A i \in 2..Len(execLog) :
                /\ ~(execLog[i - 1].stage = "UPLOAD_OUTPUT" /\ execLog[i - 1].ok)
                /\ IF execLog[i - 1].ok \/ execLog[i - 1].stage = "GENERATE_THUMBNAIL"
                   THEN C27_Place(execLog[i].stage) = C27_Place(execLog[i - 1].stage) + 1
                   ELSE execLog[i].stage = execLog[i - 1].stage)
    /\ [][/\ (pc \in Done \/ pc = "completed" => execLog' = execLog)
          /\ \A w \in consumers :
                /\ (wk'[w].pc # wk[w].pc
                       /\ wk'[w].pc \in {"download", "transcode", "storyboard",
                                          "upload", "finalize"} =>
                       /\ C27_SqsPlace(wk'[w].pc) = C27_SqsPlace(wk[w].pc) + 1
                       /\ (wk'[w].pc = "download" =>
                              job'.state = "running" \/ dbErrors' > dbErrors)
                       /\ (wk'[w].pc = "storyboard" =>
                              asset'.processing_stage = "transcoded"
                                  \/ dbErrors' > dbErrors)
                       /\ (wk'[w].pc = "finalize" => wk'[w].uploaded))
                /\ (wk'[w].pc # wk[w].pc
                       /\ wk[w].pc \in {"download", "transcode", "storyboard",
                                         "upload", "finalize"} =>
                       \/ wk'[w].pc = "finally"
                       \/ C27_SqsPlace(wk'[w].pc) = C27_SqsPlace(wk[w].pc) + 1)
                /\ (wk[w].pc \in {"finally", "ack"} /\ wk'[w].pc # wk[w].pc =>
                       wk'[w].pc \in {"ack", "poll", "backoff"})]_vars

\* C27 witness: run() has completed the job after a failed transcode call
\* was retried and the thumbnail call failed.
C27_Witness ==
    /\ pc = "done_complete"
    /\ \E i \in 1..Len(execLog) :
          execLog[i].stage = "TRANSCODE" /\ ~execLog[i].ok
    /\ \E i \in 1..Len(execLog) :
          execLog[i].stage = "GENERATE_THUMBNAIL" /\ ~execLog[i].ok

----------------------------------------------------------------------------
(* Properties of the listener                                               *)

\* C25: no two StreamWorker threads that are alive at the same time work on
\* the same input file path or on the same output directory.
C25_WorkspaceNotShared ==
    \A j1 \in Jobs, j2 \in Jobs :
        j1 # j2 /\ IsAlive(workers[j1]) /\ IsAlive(workers[j2]) =>
            /\ InputPath(j1) # InputPath(j2)
            /\ OutputPath(j1) # OutputPath(j2)

\* C29: a step of the listener that gives job j a worker is the pickup of j,
\* it has read the load for j, and the load it read was a CPU below 75.0
\* percent and more than 500 MiB of available memory; a pickup that read a
\* load at or beyond either limit leaves the dict of workers as it was; and
\* the load is read for a job without a handle only.
C29_AdmissionGatesStart ==
    [][\A j \in Jobs :
          /\ (workers[j] = "absent" /\ workers'[j] # "absent" =>
                 /\ j \in todo /\ j \notin todo'
                 /\ workers'[j] = "started"
                 /\ sample'.job = j
                 /\ sample'.cpu < 750
                 /\ sample'.avail > 524288000)
          /\ (j \in todo /\ j \notin todo' /\ sample'.job = j
                 /\ (sample'.cpu >= 750 \/ sample'.avail <= 524288000) =>
                 workers' = workers)
          /\ (j \in todo /\ j \notin todo' /\ workers[j] # "absent" =>
                 workers' = workers /\ sample' = sample)]_vars

\* C29 witness: the for loop is over; the pickup of j2 was admitted with a
\* CPU of 74.9 percent and one byte more than 500 MiB available, and j1 is
\* still queued without a worker.
C29_Witness ==
    /\ workers["j1"] = "absent"
    /\ rows["j1"] = "queued"
    /\ workers["j2"] = "started"
    /\ sample = [job |-> "j2", cpu |-> 749, avail |-> 524288001]
    /\ todo = {}
    /\ lpc = "pickup"

\* C30: cleanup_finished_workers removes the handle of every worker that is
\* not alive, keeps every other entry of the dict as it is, and touches no
\* job or asset record.
C30_CleanupRemovesFinished ==
    [][lpc = "cleanup" /\ lpc' # "cleanup" =>
          /\ \A j \in Jobs :
                /\ (workers[j] = "finished" => workers'[j] = "absent")
                /\ (workers[j] # "finished" => workers'[j] = workers[j])
          /\ rows' = rows
          /\ media' = media
          /\ job' = job
          /\ asset' = asset]_vars

\* C30 witness: the cleanup has run while the worker of j2 was alive and
\* after the worker of j1 had completed its job; the handle of j1 is gone,
\* that of j2 is kept.
C30_Witness ==
    /\ lpc = "pickup"
    /\ rows["j1"] = "succeeded"
    /\ workers["j1"] = "absent"
    /\ workers["j2"] = "running"

\* C37: a valid message is gone from the queue only when the job record is
\* in a terminal state (succeeded or failed), whatever store update failed
\* on the way.
C37_DeletedOnlyWhenTerminal ==
    msg.body = "ok" /\ msg.deleted => job.state \in Terminal

\* C38: once the message has been deleted with a receipt handle, no
\* change_message_visibility call for that handle is in progress: the
\* heartbeat thread that renews the handle has ended before the delete.
C38_NoRenewalAfterAck ==
    \A w \in consumers :
        msg.deleted /\ hb[w].rh = msg.handle => hb[w].state # "calling"

\* C39: when the thread of StreamWorker.run has ended, and no store update
\* was lost, the in-memory stage is COMPLETE or the job record says failed.
C39_EndsCompleteOrFailed ==
    pc \in Done /\ dbErrors = 0 => stage = "COMPLETE" \/ job.state = "failed"

\* C32: an upload stage returns True only when every file of the output
\* directory is in the bucket, and, starting from an empty bucket, exactly
\* when all of them went up; on a failure the files after the failing one
\* are not uploaded.
C32_UploadAllOrNothing ==
    [][/\ (stage = "UPLOAD_OUTPUT" /\ Len(execLog') > Len(execLog) =>
              LET ok == execLog'[Len(execLog')].ok
              IN  /\ ok => remote' = OutputFiles
                  /\ remote = 0 => (ok <=> remote' = OutputFiles))
       /\ \A w \in consumers :
              wk[w].pc = "upload" /\ wk'[w].pc # "upload" =>
                 /\ wk'[w].uploaded => remote' = OutputFiles
                 /\ remote = 0 => (wk'[w].uploaded <=> remote' = OutputFiles)]_vars

\* C32 witness: upload_to_wasabi has returned False after one of the files
\* had gone up, and process_job is on its way out through the finally clause.
C32_Witness ==
    /\ pc = "init"
    /\ remote = 1
    /\ wk["w1"].pc = "finally"
    /\ ~wk["w1"].uploaded
    /\ ~wk["w1"].result

\* C31: within one execution of transcode_video every progress value
\* persisted while ffmpeg runs is in 0..99 and above the value persisted
\* before it, and the exit of ffmpeg persists 100 when its return code is
\* zero and leaves the progress untouched otherwise.
C31_ProgressMonotoneTo100 ==
    [][\A w \in consumers :
          /\ (wk[w].pc = "transcode" /\ wk'[w].pc = "transcode"
                 /\ (wk'[w].pct # wk[w].pct
                        \/ asset'.transcode_progress # asset.transcode_progress) =>
                 /\ wk'[w].pct \in 0..99
                 /\ wk'[w].pct > wk[w].pct
                 /\ (asset'.transcode_progress = wk'[w].pct
                        \/ dbErrors' > dbErrors))
          /\ (wk[w].pc = "transcode" /\ wk'[w].pc # "transcode" =>
                 /\ wk'[w].rc \in {0, 1}
                 /\ (wk'[w].rc = 0 =>
                        asset'.transcode_progress = 100 \/ dbErrors' > dbErrors)
                 /\ (wk'[w].rc # 0 =>
                        asset'.transcode_progress = asset.transcode_progress))]_vars

\* C31 witness: ffmpeg has exited with code zero after its last marker, at
\* the full duration, had been persisted as 99; the record now says 100.
C31_Witness ==
    /\ wk["w1"].pc = "storyboard"
    /\ wk["w1"].mark = DurationSeconds
    /\ wk["w1"].pct = 99
    /\ wk["w1"].rc = 0
    /\ asset.transcode_progress = 100

\* C33: a cue file that was written has min(segments, sprites x 25) cues;
\* its first cue starts at 00:00:00.000; every later cue starts where the
\* one before it ends; and cue i (counted from 0) shows sprite i div 25 at
\* column (i mod 25) mod 5 and row (i mod 25) div 5 of the sheet.
C33_CuesContiguousAndMapped ==
    board.result = "written" =>
        LET n == Len(board.durations)
            capacity == board.sprites * 25
            cues == board.vtt
        IN  /\ Len(cues) = IF n <= capacity THEN n ELSE capacity
            /\ Len(cues) > 0 => cues[1].start = <<0, 0, 0>>
            /\ \A k \in 2..Len(cues) : cues[k].start = cues[k - 1].end
            /\ \A k \in 1..Len(cues) :
                  LET i == k - 1
                  IN  /\ cues[k].sprite = i \div 25
                      /\ cues[k].x = ((i % 25) % 5) * 320
                      /\ cues[k].y = ((i % 25) \div 5) * board.height

\* C33 witness: a manifest of 52 segments with a short last one and two
\* sprite sheets: the file has 50 cues, and cue 49 is the last cell (column
\* 4, row 4) of the second sheet and ends 4 min 54.294 s into the video.
C33_Witness ==
    /\ board.result = "written"
    /\ Len(board.durations) = 52
    /\ board.durations[1] = 6006
    /\ board.durations[52] = 1500
    /\ board.sprites = 2
    /\ Len(board.vtt) = 50
    /\ board.vtt[50].sprite = 1
    /\ board.vtt[50].x = 1280
    /\ board.vtt[50].y = 720
    /\ board.vtt[50].start = <<0, 4, 54294>>

\* C34: assert_same_org raises the 403 of a cross-org access exactly when
\* the record's organisation is present (neither None nor empty) and is not
\* the user's; for a record without an organisation, and for one of the
\* user's own, it returns.
C34_DeniesExactlyCrossOrg ==
    api.call.op = "assert_same_org" =>
        /\ api.call.status \in {"403", "returned"}
        /\ (api.call.arg \in {NoValue, ""} => api.call.status = "returned")
        /\ (api.call.arg = api.call.user_org => api.call.status = "returned")
        /\ (api.call.arg \in Orgs \ {api.call.user_org} => api.call.status = "403")

\* C34 witness: a user of org1 was denied a record of org2.
C34_Witness ==
    /\ api.call.op = "assert_same_org"
    /\ api.call.user_org = "org1"
    /\ api.call.arg = "org2"
    /\ api.call.status = "403"

\* C35: a create_clip call by a player ends with 403, makes no database
\* operation and leaves table clips as it was; a call by an admin, an
\* analyst or a coach does not end with 403.
C35_PlayersCannotCreateClips ==
    [][api'.call.op = "create_clip" /\ api' # api =>
          /\ (api'.call.role = "player" =>
                 /\ api'.call.status = "403"
                 /\ api'.call.db_ops = 0
                 /\ api'.clips = api.clips)
          /\ (api'.call.role \in {"admin", "analyst", "coach"} =>
                 api'.call.status # "403")]_vars

\* C35 witness: a coach has created a clip, and a player's call after it was
\* rejected with 403 before any database operation.
C35_Witness ==
    /\ Len(api.clips) = 1
    /\ api.call.op = "create_clip"
    /\ api.call.role = "player"
    /\ api.call.status = "403"
    /\ api.call.db_ops = 0

\* C40: every row of table clips carries the organisation of the user who
\* created it.
C40_ClipInCreatorsOrg ==
    \A k \in 1..Len(api.clips) : api.clips[k].org_id = api.clips[k].by

\* C36: at most one StreamWorker is ever started for a job.
C36_StartedAtMostOnce ==
    \A j \in Jobs : starts[j] <= 1
====
